---------------------------- MODULE Spec2Model ----------------------------
(***************************************************************************)
(* Vendral simulation engine (src/src/lib/simulation.ts): the state store,  *)
(* the scheduler (startSimulation / stopSimulation), the transaction        *)
(* generator (simulateTransaction), the system-event generator              *)
(* (simulateSystemEvent) and the fleet generator (generateMachines,         *)
(* createPlanogram, weightedRandomProduct).                                 *)
(*                                                                          *)
(* Scaling.  The source keeps 200 transactions and 300 events, seeds 10 of  *)
(* each, and runs 20 machines of 60 slots over a 50-product catalog.  The   *)
(* model keeps the code of every handler and scales these sizes down:       *)
(* MaxTransactions, MaxEvents and SeedCount stand for 200, 300 and 10 (same *)
(* order: SeedCount < MaxTransactions < MaxEvents), MachineIds, SlotIds and *)
(* PRODUCTS for the fleet and the catalog.                                  *)
(*                                                                          *)
(* Randomness.  Every Math.random() is an input r/100 with r drawn from a   *)
(* small set of hundredths that holds both sides of every threshold the     *)
(* code compares it with.  An index pick floor(random * n) is an input      *)
(* index drawn from 1..n, or from the named subset of it (SeedPicks,        *)
(* picksOf).                                                                *)
(*                                                                          *)
(* Time.  `now` is the wall clock at the last invocation that read it, in   *)
(* logical units of 30 s (the spacing of the seeded entries); only the      *)
(* order of its values matters.  An invocation that reads the clock reads   *)
(* a later value than the one before it, and every `new Date()` of one      *)
(* invocation reads the same value.                                         *)
(***************************************************************************)
EXTENDS Integers, Sequences, FiniteSets, TLC

VARIABLES
    machines,       \* s.machines: machine id -> VendingMachine
    transactions,   \* s.transactions
    events,         \* s.events
    hourlyRevenue,  \* s.hourlyRevenue
    hourlyTraffic,  \* s.hourlyTraffic
    txCounter,      \* s.txCounter
    evCounter,      \* s.evCounter
    isRunning,      \* s.isRunning
    txInterval,     \* handle of the transaction timer, 0 for null
    evInterval,     \* handle of the system-event timer, 0 for null
    activeTimers,   \* the runtime's live setInterval timers: [id, kind]
    nextTimerId,    \* the runtime's next timer handle
    now,            \* wall clock
    selectedStatus, \* history: tx sequence number -> status of its machine when selected
    txCallbacks,    \* registry of transaction callbacks, in registration order
    evCallbacks,    \* registry of system-event callbacks
    updateCallbacks,\* registry of generic-update callbacks
    unsubscribers,  \* the unsubscribe functions returned so far: [registry, cb, calls]
    steps,          \* history: what the last generator invocation did, in order
    fleetStats,     \* the value getFleetStats returned last
    selection,      \* the last weightedRandomProduct call looked at: [random, product, at]
    reading         \* the last call of a computed-data helper: [fn, n, result]

\* the state store, the clock and the history of selections
storeVars == <<machines, transactions, events, hourlyRevenue, hourlyTraffic, txCounter,
               evCounter, now, selectedStatus>>

\* the scheduler and the runtime's timers
timerVars == <<isRunning, txInterval, evInterval, activeTimers, nextTimerId>>

\* the notification bus
registryVars == <<txCallbacks, evCallbacks, updateCallbacks, unsubscribers>>

\* what the readers of the engine hold
analyticsVars == <<fleetStats, selection, reading>>

vars == <<storeVars, timerVars, registryVars, steps, analyticsVars>>

---------------------------------------------------------------------------
(* Sizes *)

\* largest n the product rankings are asked for
MaxN == 3

\* latest clock value at which a helper is called
MaxReadClock == 10

\* capacity of the transaction history (200 in the source)
MaxTransactions == 3

\* capacity of the event history (300 in the source)
MaxEvents == 3

\* number of seeded transactions and events (10 in the source)
SeedCount == 2

\* registrations made over a run, the three registries together
MaxRegistrations == 2

\* calls made of one unsubscribe function
MaxUnsubscribeCalls == 2

\* generator invocations that run while subscribers are registered
MaxObservedTicks == 2

\* the transaction counter stops the model here
MaxTxCounter == 4

\* the event counter stops the model here
MaxEvCounter == 5

\* the runtime hands out timer handles 1..MaxTimerId
MaxTimerId == 4

MachineIds == 1 .. 2

SlotIds == 1 .. 2

\* the head of the catalog
PRODUCTS ==
    << [id |-> "p01", price |-> 450, weight |-> 3],
       [id |-> "p02", price |-> 420, weight |-> 2] >>

Hours == 0 .. 23

---------------------------------------------------------------------------
(* Generic helpers *)

Max(a, b) == IF a >= b THEN a ELSE b

RECURSIVE SumWeights(_)
SumWeights(ps) == IF ps = <<>> THEN 0 ELSE Head(ps).weight + SumWeights(Tail(ps))

\* Array.prototype.unshift
unshift(arr, x) == <<x>> \o arr

\* Array.prototype.push
push(arr, x) == Append(arr, x)

\* Array.prototype.pop (the array that is left)
pop(arr) == SubSeq(arr, 1, Len(arr) - 1)

RECURSIVE digitsOf(_)
digitsOf(n) == IF n < 10 THEN <<n>> ELSE Append(digitsOf(n \div 10), n % 10)

\* String.prototype.padStart(width, "0") on a digit string
padStart(ds, width) ==
    IF Len(ds) >= width THEN ds ELSE [i \in 1 .. (width - Len(ds)) |-> 0] \o ds

\* mutant: the number is padded to five digits
mintIdShort(prefix, n) == [prefix |-> prefix, digits |-> padStart(digitsOf(n), 5)]

\* `${prefix}-${String(n).padStart(6, "0")}`
mintId(prefix, n) == [prefix |-> prefix, digits |-> padStart(digitsOf(n), 6)]


---------------------------------------------------------------------------
(* Random inputs, in hundredths *)

\* statusRoll of generateMachines: both sides of 0.7, 0.75 and 0.9
StatusRolls == {70, 71, 75, 76, 90, 91}

\* the status roll of the hardware-error branch: both sides of 0.5
HalfRolls == {50, 51}

\* the draw behind every number the engine only displays (initial
\* connectivity, revenue, transaction count and last activity of a machine,
\* the jitter of the hourly curve)
DisplayRoll == {0}

\* the draw of weightedRandomProduct
ProductRolls == {0, 60, 61, 99}

\* the draws of createPlanogram for one fleet: per machine and slot the product
\* draw, the maxStock draw and the stock draw.  Machine 1 holds p01 twice, with
\* stock 1 and 2 of 6; machine 2 holds p01 with stock 6 of 6 and p02 with 3 of 8
PlanogramRolls ==
    << << [product |-> 0,  maxStock |-> 0,  stock |-> 0],
          [product |-> 60, maxStock |-> 0,  stock |-> 50] >>,
       << [product |-> 0,  maxStock |-> 0,  stock |-> 99],
          [product |-> 99, maxStock |-> 50, stock |-> 30] >> >>

\* the motorBoard roll of generateMachines
MotorRolls == {51}

\* the machine picks and product draws of seedInitialEvents
SeedPicks == {1}

SeedProductRolls == {0}

\* the success roll of simulateTransaction: both sides of 0.05
SuccessRolls == {5, 6}

\* the branch roll of simulateSystemEvent: both sides of 0.5, 0.65, 0.85
BranchRolls == {0, 50, 51, 65, 66, 85, 86, 99}

\* the self-heal roll of the heartbeat branch: both sides of 0.7
HealRolls == {70, 71}

\* the newSignal draw of the connectivity branch: 69 and 70
SignalRolls == {24, 25}

\* Math.floor(r/100 * n)
floorOf(r, n) == (r * n) \div 100

---------------------------------------------------------------------------
(* Fleet generator *)

\* weightedRandomProduct with Math.random() = r/100; the running value
\* `random` is kept in hundredths
RECURSIVE scanProductsUnweighted(_, _)
\* mutant: every product counts as weight 1
scanProductsUnweighted(random, i) ==
    IF i > Len(PRODUCTS) THEN PRODUCTS[1]
    ELSE IF random - 100 <= 0 THEN PRODUCTS[i]
    ELSE scanProductsUnweighted(random - 100, i + 1)

RECURSIVE scanProducts(_, _)
scanProducts(random, i) ==
    IF i > Len(PRODUCTS) THEN PRODUCTS[1]
    ELSE IF random - 100 * PRODUCTS[i].weight <= 0 THEN PRODUCTS[i]
    ELSE scanProducts(random - 100 * PRODUCTS[i].weight, i + 1)

\* mutant: the scan stops only below 0
RECURSIVE returnedAtStrict(_, _)
returnedAtStrict(random, i) ==
    IF i > Len(PRODUCTS) THEN 0
    ELSE IF random - 100 * PRODUCTS[i].weight < 0 THEN i
    ELSE returnedAtStrict(random - 100 * PRODUCTS[i].weight, i + 1)

\* the round of the loop whose `return product` ends the scan, 0 when the
\* loop runs out and the fallback `return PRODUCTS[0]` is taken
RECURSIVE returnedAt(_, _)
returnedAt(random, i) ==
    IF i > Len(PRODUCTS) THEN 0
    ELSE IF random - 100 * PRODUCTS[i].weight <= 0 THEN i
    ELSE returnedAt(random - 100 * PRODUCTS[i].weight, i + 1)

weightedRandomProduct(r) == scanProducts(r * SumWeights(PRODUCTS), 1)

RECURSIVE findProduct(_, _)
findProduct(id, i) ==
    IF i > Len(PRODUCTS) THEN PRODUCTS[1]
    ELSE IF PRODUCTS[i].id = id THEN PRODUCTS[i] ELSE findProduct(id, i + 1)

\* getProductById, for ids of the catalog
getProductById(id) == findProduct(id, 1)

\* maxStock of a new slot
initialMaxStock(r) == floorOf(r, 5) + 6

\* mutant: the draw ranges over maxStock + 1 values
initialStockInclusive(r, maxStock) == floorOf(r, maxStock + 1) + 1

\* stock of a new slot
initialStock(r, maxStock) == floorOf(r, maxStock) + 1

\* one slot of createPlanogram
createSlot(pRoll, mRoll, sRoll) ==
    LET product == weightedRandomProduct(pRoll)
        maxStock == initialMaxStock(mRoll)
    IN  [productId |-> product.id,
         stock     |-> initialStock(sRoll, maxStock),
         maxStock  |-> maxStock,
         price     |-> product.price]

\* the status generateMachines rolls
initialStatus(statusRoll) ==
    IF statusRoll > 90 THEN "error"
    ELSE IF statusRoll > 75 THEN "warning"
    ELSE IF statusRoll > 70 THEN "offline"
    ELSE "online"

\* the hardware generateMachines derives from the status
initialHardware(status, motorRoll, connRoll) ==
    [billValidator |-> IF status = "error" THEN "ERROR" ELSE "OK",
     cardReader    |-> "OK",
     connectivity  |-> IF status = "offline" THEN 0 ELSE 70 + floorOf(connRoll, 30),
     motorBoard    |-> IF status = "error" /\ motorRoll > 50 THEN "ERROR" ELSE "OK",
     display       |-> "OK"]

\* one machine of generateMachines
createMachine(id, statusRoll, motorRoll, r, planogram, t0) ==
    LET status == initialStatus(statusRoll)
    IN  [id                |-> id,
         status            |-> status,
         hardware          |-> initialHardware(status, motorRoll, r),
         planogram         |-> planogram,
         revenueToday      |-> floorOf(r, 80000) + 10000,
         transactionsToday |-> floorOf(r, 120) + 20,
         lastActivity      |-> t0 - floorOf(r, 120)]

\* the fleets generateMachines can return
generateMachines(t0) ==
    { [m \in MachineIds |->
          createMachine(m, st[m], mo[m], r,
                        [sl \in SlotIds |->
                            createSlot(PlanogramRolls[m][sl].product,
                                       PlanogramRolls[m][sl].maxStock,
                                       PlanogramRolls[m][sl].stock)], t0)] :
        st \in [MachineIds -> StatusRolls],
        mo \in [MachineIds -> MotorRolls],
        r \in DisplayRoll }


---------------------------------------------------------------------------
(* Analytics *)

\* the ids of MachineIds in fleet order
machineOrder == [i \in MachineIds |-> i]

\* five minutes, in clock units
FiveMinutes == 10

\* values.reduce((sum, v) => sum + v, 0) over the first n values
RECURSIVE reduceSum(_, _)
reduceSum(values, n) == IF n = 0 THEN 0 ELSE reduceSum(values, n - 1) + values[n]

\* s.machines.filter(m => m.status === status).length
countStatus(ms, status) == Len(SelectSeq(machineOrder, LAMBDA m : ms[m].status = status))

\* mutant: the quotient is cut, not rounded
mathTrunc(num, den) == num \div den

\* Math.round(num / den) for den > 0: the nearest integer, a half goes up
mathRound(num, den) == (2 * num + den) \div (2 * den)

\* the slots of one planogram the low-stock loop counts
lowStockIn(planogram) ==
    Cardinality({ sl \in DOMAIN planogram :
                    planogram[sl].stock <= 2 /\ planogram[sl].productId # "" })

\* getFleetStats() on machines ms and events evs, with Date.now() = clock
getFleetStats(ms, evs, clock) ==
    LET totalRevenue      == reduceSum([i \in DOMAIN machineOrder |->
                                           ms[machineOrder[i]].revenueToday],
                                       Len(machineOrder))
        totalTransactions == reduceSum([i \in DOMAIN machineOrder |->
                                           ms[machineOrder[i]].transactionsToday],
                                       Len(machineOrder))
        fiveMinAgo        == clock - FiveMinutes
    IN  [total             |-> Len(machineOrder),
         online            |-> countStatus(ms, "online"),
         warning           |-> countStatus(ms, "warning"),
         error             |-> countStatus(ms, "error"),
         offline           |-> countStatus(ms, "offline"),
         totalRevenue      |-> totalRevenue,
         totalTransactions |-> totalTransactions,
         atv               |-> IF totalTransactions > 0
                               THEN mathRound(totalRevenue, totalTransactions)
                               ELSE 0,
         criticalAlerts    |-> Len(SelectSeq(evs, LAMBDA e :
                                      e.type = "error" /\ e.timestamp > fiveMinAgo)),
         lowStockSlots     |-> reduceSum([i \in DOMAIN machineOrder |->
                                            lowStockIn(ms[machineOrder[i]].planogram)],
                                        Len(machineOrder))]

\* no weightedRandomProduct call has been looked at
noSelection == [random |-> 0, product |-> "", at |-> 0]

\* the index of a product's entry in productSales, 0 when it has none
entryOf(productSales, productId) ==
    LET hits == { i \in DOMAIN productSales : productSales[i].productId = productId }
    IN  IF hits = {} THEN 0 ELSE CHOOSE i \in hits : TRUE

\* if (!productSales[id]) productSales[id] = {...blank}: keys keep insertion order
withEntry(productSales, productId, blank) ==
    IF entryOf(productSales, productId) = 0
    THEN Append(productSales, [blank EXCEPT !.productId = productId])
    ELSE productSales

\* one round of `for (const tx of s.transactions)`
tallySale(productSales, tx, blank) ==
    IF ~tx.success THEN productSales
    ELSE LET sales == withEntry(productSales, tx.productId, blank)
         IN  [sales EXCEPT ![entryOf(sales, tx.productId)].count = @ + 1,
                           ![entryOf(sales, tx.productId)].revenue = @ + tx.amount]

\* the sales tally after the first k transactions of the history
RECURSIVE tallySales(_, _, _)
tallySales(txs, k, blank) ==
    IF k = 0 THEN <<>> ELSE tallySale(tallySales(txs, k - 1, blank), txs[k], blank)

\* one round of `for (const slot of machine.planogram)`
tallySlot(productSales, slot, blank) ==
    IF slot.productId = "" THEN productSales
    ELSE LET sales == withEntry(productSales, slot.productId, blank)
         IN  [sales EXCEPT ![entryOf(sales, slot.productId)].stock = @ + slot.stock,
                           ![entryOf(sales, slot.productId)].maxStock = @ + slot.maxStock]

\* the tally after the first k slots of a planogram
RECURSIVE tallySlots(_, _, _, _)
tallySlots(productSales, planogram, k, blank) ==
    IF k = 0 THEN productSales
    ELSE tallySlot(tallySlots(productSales, planogram, k - 1, blank), planogram[k], blank)

\* the tally after the first k machines of `for (const machine of s.machines)`
RECURSIVE tallyStock(_, _, _, _)
tallyStock(productSales, ms, k, blank) ==
    IF k = 0 THEN productSales
    ELSE tallySlots(tallyStock(productSales, ms, k - 1, blank),
                    ms[machineOrder[k]].planogram,
                    Len(ms[machineOrder[k]].planogram), blank)

\* the tally after the first k catalog products of `for (const p of PRODUCTS)`
RECURSIVE withCatalog(_, _, _)
withCatalog(productSales, k, blank) ==
    IF k = 0 THEN productSales
    ELSE withEntry(withCatalog(productSales, k - 1, blank), PRODUCTS[k].id, blank)

\* .map(([productId, data]) => ({productId, price, ...data}))
withPrices(productSales) ==
    [i \in DOMAIN productSales |->
        [entry |-> productSales[i], price |-> getProductById(productSales[i].productId).price]]

\* x put into an array sorted by the comparator sign * (a.revenue - b.revenue),
\* behind every element that does not compare greater (the sort is stable)
insertSorted(sorted, x, sign) ==
    LET ahead == { i \in DOMAIN sorted :
                     sign * (sorted[i].entry.revenue - x.entry.revenue) <= 0 }
        k     == IF ahead = {} THEN 0 ELSE CHOOSE i \in ahead : \A j \in ahead : i >= j
    IN  SubSeq(sorted, 1, k) \o <<x>> \o SubSeq(sorted, k + 1, Len(sorted))

\* mutant: the array is left in insertion order
sortUnsorted(arr, k, sign) == arr

\* .sort(comparator) of the first k elements
RECURSIVE sort(_, _, _)
sort(arr, k, sign) ==
    IF k = 0 THEN <<>> ELSE insertSorted(sort(arr, k - 1, sign), arr[k], sign)

\* .slice(0, n) for n >= 0
slice(arr, n) == SubSeq(arr, 1, IF n < Len(arr) THEN n ELSE Len(arr))

\* the entry getTopProducts starts a product with
blankTop == [productId |-> "", count |-> 0, revenue |-> 0, stock |-> 0, maxStock |-> 0]

\* the entry getBottomProducts starts a product with
blankBottom == [productId |-> "", count |-> 0, revenue |-> 0]

\* getTopProducts(n): b.revenue - a.revenue sorts descending
getTopProducts(txs, ms, n) ==
    LET sold   == tallySales(txs, Len(txs), blankTop)
        ranked == withPrices(tallyStock(sold, ms, Len(machineOrder), blankTop))
    IN  slice(sort(ranked, Len(ranked), -1), n)

\* getBottomProducts(n): a.revenue - b.revenue sorts ascending
getBottomProducts(txs, n) ==
    LET sold   == tallySales(txs, Len(txs), blankBottom)
        ranked == withPrices(withCatalog(sold, Len(PRODUCTS), blankBottom))
    IN  slice(sort(ranked, Len(ranked), 1), n)

\* getHourlyData(): one entry per hour, labelled `${String(hour).padStart(2, "0")}:00`
getHourlyData(rev, traffic) ==
    [hour \in Hours |-> [hour    |-> padStart(digitsOf(hour), 2),
                         revenue |-> rev[hour],
                         traffic |-> traffic[hour]]]

\* the days and hours of the heatmap grid (7 days of 24 hours in the source):
\* a weekday and a weekend day, a night hour and a lunch hour
HeatDays == <<"Mon", "Sat">>

HeatHours == <<3, 12>>

HeatRolls == {0, 99}

Weekdays == {"Mon", "Tue", "Wed", "Thu", "Fri"}

\* the cells of the grid in the order of the two loops
heatCells ==
    [i \in 1 .. (Len(HeatDays) * Len(HeatHours)) |->
        [day  |-> HeatDays[((i - 1) \div Len(HeatHours)) + 1],
         hour |-> HeatHours[((i - 1) % Len(HeatHours)) + 1]]]

\* `base` of one cell with Math.random() = r/100, in hundredths
heatBase(day, hour, r) ==
    IF day \in Weekdays
    THEN IF hour >= 11 /\ hour <= 13 THEN 8000 + r * 20
         ELSE IF hour >= 15 /\ hour <= 17 THEN 6000 + r * 20
         ELSE IF hour >= 7 /\ hour <= 9 THEN 5000 + r * 15
         ELSE IF hour >= 0 /\ hour <= 5 THEN 500 + r * 5
         ELSE 3000 + r * 20
    ELSE IF hour >= 11 /\ hour <= 16 THEN 5000 + r * 20
         ELSE IF hour >= 0 /\ hour <= 7 THEN 500 + r * 5
         ELSE 2500 + r * 15

\* getSalesHeatmap() with the rolls of its cells
getSalesHeatmap(rolls) ==
    [i \in DOMAIN heatCells |->
        [day   |-> heatCells[i].day,
         hour  |-> heatCells[i].hour,
         value |-> mathRound(heatBase(heatCells[i].day, heatCells[i].hour, rolls[i]), 100)]]

\* no helper has been called yet
noReading == [fn |-> "none", n |-> 0, result |-> <<>>]

---------------------------------------------------------------------------
(* State store: getSimulationState and seedInitialEvents *)

\* the synthetic daily revenue curve, with Math.random() = r/100
initialHourlyRevenue(r) ==
    [hour \in Hours |->
        Max(5000, 25000
                  + (IF hour >= 11 /\ hour <= 14 THEN 45000 ELSE 0)
                  + (IF hour >= 15 /\ hour <= 17 THEN 30000 ELSE 0)
                  + (IF hour >= 0 /\ hour <= 6 THEN 0 - 20000 ELSE 0)
                  + floorOf(r, 15000))]

\* the traffic curve derived from it, with Math.random() = r/100
initialHourlyTraffic(rev, r) == [hour \in Hours |-> rev[hour] \div (400 + floorOf(r, 200))]

\* the i-th seeded transaction (i = 1 .. SeedCount is the counter value)
seedTransaction(i, machine, product, t0) ==
    [id        |-> mintId("TX", i),
     machineId |-> machine,
     productId |-> product.id,
     amount    |-> product.price,
     timestamp |-> t0 - (SeedCount - (i - 1)),
     success   |-> TRUE]

\* the i-th seeded event
seedEvent(i, machine, t0) ==
    [id        |-> mintId("EV", i),
     machineId |-> machine,
     type      |-> "success",
     category  |-> "transaction",
     code      |-> "CARD_TRANSACTION_COMPLETED",
     timestamp |-> t0 - (SeedCount - (i - 1))]

\* s.transactions after the first n rounds of the seeding loop
RECURSIVE seedTransactions(_, _, _, _)
seedTransactions(n, sm, sp, t0) ==
    IF n = 0 THEN <<>>
    ELSE push(seedTransactions(n - 1, sm, sp, t0),
              seedTransaction(n, sm[n], weightedRandomProduct(sp[n]), t0))

\* s.events after the first n rounds of the seeding loop
RECURSIVE seedEvents(_, _, _)
seedEvents(n, sm, t0) ==
    IF n = 0 THEN <<>>
    ELSE push(seedEvents(n - 1, sm, t0), seedEvent(n, sm[n], t0))

Init ==
    /\ now = 0
    /\ machines \in generateMachines(0)
    /\ \E sm \in [1 .. SeedCount -> SeedPicks], sp \in [1 .. SeedCount -> SeedProductRolls] :
          /\ transactions = seedTransactions(SeedCount, sm, sp, 0)
          /\ events = seedEvents(SeedCount, sm, 0)
          /\ selectedStatus = [i \in 1 .. SeedCount |-> machines[sm[i]].status]
    /\ \E r \in DisplayRoll :
          /\ hourlyRevenue = initialHourlyRevenue(r)
          /\ hourlyTraffic = initialHourlyTraffic(hourlyRevenue, r)
    /\ txCounter = SeedCount
    /\ evCounter = SeedCount
    /\ isRunning = FALSE
    /\ txInterval = 0
    /\ evInterval = 0
    /\ activeTimers = {}
    /\ nextTimerId = 1
    /\ txCallbacks = <<>>
    /\ evCallbacks = <<>>
    /\ updateCallbacks = <<>>
    /\ unsubscribers = <<>>
    /\ steps = <<>>
    /\ fleetStats = getFleetStats(machines, events, now)
    /\ selection = noSelection
    /\ reading = noReading

---------------------------------------------------------------------------
(* Scheduler *)

\* mutant: the timer survives the call
clearIntervalKeeps(timers, handle) == timers

\* clearInterval(handle): clearing null or a dead handle does nothing
clearInterval(timers, handle) == { t \in timers : t.id # handle }

\* mutant: only the transaction timer is armed
startTimersTxOnly ==
    /\ nextTimerId + 1 <= MaxTimerId
    /\ isRunning' = TRUE
    /\ txInterval' = nextTimerId
    /\ evInterval' = evInterval
    /\ activeTimers' = activeTimers \cup { [id |-> nextTimerId, kind |-> "tx"] }
    /\ nextTimerId' = nextTimerId + 2

\* the body of startSimulation after the isRunning check
startTimers ==
    /\ nextTimerId + 1 <= MaxTimerId
    /\ isRunning' = TRUE
    /\ txInterval' = nextTimerId
    /\ evInterval' = nextTimerId + 1
    /\ activeTimers' = activeTimers \cup { [id |-> nextTimerId, kind |-> "tx"],
                                           [id |-> nextTimerId + 1, kind |-> "ev"] }
    /\ nextTimerId' = nextTimerId + 2

\* mutant: the isRunning check is missing, a second start arms new timers
startAgain == startTimers

\* what startSimulation does when s.isRunning is already set: it returns
startWhileRunning ==
    UNCHANGED <<isRunning, txInterval, evInterval, activeTimers, nextTimerId>>

startSimulation ==
    /\ IF isRunning THEN startWhileRunning ELSE startTimers
    /\ UNCHANGED <<storeVars, registryVars, steps, analyticsVars>>

stopSimulation ==
    /\ isRunning' = FALSE
    /\ activeTimers' = clearInterval(clearInterval(activeTimers, txInterval), evInterval)
    /\ UNCHANGED <<txInterval, evInterval, nextTimerId>>
    /\ UNCHANGED <<storeVars, registryVars, steps, analyticsVars>>


---------------------------------------------------------------------------
(* Event factory functions; n is s.evCounter after its increment *)

errorMessages ==
    << "MOTOR_JAM_DETECTED", "MDB_POLL_TIMEOUT", "TEMP_SENSOR_ANOMALY",
       "CARD_READER_MAG_ERR", "DISPLAY_BACKLIGHT_ERR" >>

warningMessages ==
    << "TEMP_HIGH_WARNING", "MDB_CLEAN_WARNING", "PSU_VOLTAGE_WARN",
       "COMPRESSOR_CYCLE_WARN" >>

heartbeatCodes ==
    << "MDB_POLL_SUCCESS", "HEARTBEAT_OK", "SYSTEM_CHECK_PASS", "FIRMWARE_UPTODATE" >>

\* the picks floor(random * pool.length) + 1 the model draws: the last of the pool
picksOf(pool) == {Len(pool)}

\* mutant: the terminal logs every transaction as completed
createTerminalEventCompleted(machine, success, n, t) ==
    [id        |-> mintId("EV", n),
     machineId |-> machine,
     type      |-> "success",
     category  |-> "transaction",
     code      |-> "CARD_TRANSACTION_COMPLETED",
     timestamp |-> t]

\* createTerminalEvent: the terminal's log line for a transaction
createTerminalEvent(machine, success, n, t) ==
    [id        |-> mintId("EV", n),
     machineId |-> machine,
     type      |-> IF success THEN "success" ELSE "warning",
     category  |-> "transaction",
     code      |-> IF success THEN "CARD_TRANSACTION_COMPLETED" ELSE "CARD_DECLINED_RETRY",
     timestamp |-> t]

\* the event emitStockWarning builds
stockWarningEvent(machine, n, t) ==
    [id        |-> mintId("EV", n),
     machineId |-> machine,
     type      |-> "warning",
     category  |-> "stock",
     code      |-> "STOCK_LOW_WARNING",
     timestamp |-> t]

\* the event emitStockEmpty builds
stockEmptyEvent(machine, n, t) ==
    [id        |-> mintId("EV", n),
     machineId |-> machine,
     type      |-> "error",
     category  |-> "stock",
     code      |-> "STOCK_EMPTY_ALERT",
     timestamp |-> t]

createHardwareEvent(machine, severity, pick, n, t) ==
    LET pool == IF severity = "error" THEN errorMessages ELSE warningMessages
    IN  [id        |-> mintId("EV", n),
         machineId |-> machine,
         type      |-> severity,
         category  |-> "hardware",
         code      |-> pool[pick],
         timestamp |-> t]

createConnectivityEvent(machine, signal, n, t) ==
    [id        |-> mintId("EV", n),
     machineId |-> machine,
     type      |-> IF signal < 70 THEN "warning" ELSE "info",
     category  |-> "connectivity",
     code      |-> IF signal < 70 THEN "CONN_SIGNAL_WEAK" ELSE "CONN_SIGNAL_OK",
     timestamp |-> t]

createHeartbeatEvent(machine, pick, n, t) ==
    [id        |-> mintId("EV", n),
     machineId |-> machine,
     type      |-> "info",
     category  |-> "system",
     code      |-> heartbeatCodes[pick],
     timestamp |-> t]

---------------------------------------------------------------------------
(* Bounded histories *)

\* mutant: a declined transaction is not kept
pushTransactionPaidOnly(history, tx) ==
    LET h == IF tx.success THEN unshift(history, tx) ELSE history
    IN  IF Len(h) > MaxTransactions THEN pop(h) ELSE h

\* mutant: the history is never trimmed
pushTransactionNoTrim(history, tx) == unshift(history, tx)

\* s.transactions.unshift(tx); if (s.transactions.length > 200) s.transactions.pop()
pushTransaction(history, tx) ==
    LET h == unshift(history, tx)
    IN  IF Len(h) > MaxTransactions THEN pop(h) ELSE h

\* s.events.unshift(event); if (s.events.length > 300) s.events.pop()
pushEvent(history, event) ==
    LET h == unshift(history, event)
    IN  IF Len(h) > MaxEvents THEN pop(h) ELSE h

\* the s.events.unshift(event) of emitStockWarning and emitStockEmpty
pushStockEvent(history, event) == unshift(history, event)

---------------------------------------------------------------------------
(* Notification bus *)

\* The subscribers' callbacks.  "render" reads the state and returns; "once"
\* also calls its own unsubscribe function the first time it is invoked.
Callbacks == {"render", "once"}

OnceCallbacks == {"once"}

Registries == {"txCallbacks", "evCallbacks", "updateCallbacks"}

\* the payload of a generic update, which carries none
noId == [prefix |-> "", digits |-> <<>>]

\* arr.indexOf(cb), counted from 1: 0 when cb is not in arr
indexOf(arr, cb) ==
    LET hits == { i \in DOMAIN arr : arr[i] = cb }
    IN  IF hits = {} THEN 0 ELSE CHOOSE i \in hits : \A j \in hits : i <= j

\* arr.splice(idx, 1)
splice(arr, idx) == SubSeq(arr, 1, idx - 1) \o SubSeq(arr, idx + 1, Len(arr))

\* the body of an unsubscribe function: the registry after the call
unsubscribeFrom(arr, cb) ==
    LET idx == indexOf(arr, cb) IN IF idx >= 1 THEN splice(arr, idx) ELSE arr

\* The store and the registries while a generator invocation runs: the
\* invocation is one action, `run` is the state its statements pass on.
running ==
    [machines        |-> machines,
     transactions    |-> transactions,
     events          |-> events,
     hourlyRevenue   |-> hourlyRevenue,
     hourlyTraffic   |-> hourlyTraffic,
     txCounter       |-> txCounter,
     evCounter       |-> evCounter,
     txCallbacks     |-> txCallbacks,
     evCallbacks     |-> evCallbacks,
     updateCallbacks |-> updateCallbacks,
     unsubscribers   |-> unsubscribers,
     steps           |-> <<>>]

\* what getSimulationState() shows to a caller at this point of the invocation
observed(run) ==
    [machines |-> run.machines, transactions |-> run.transactions, events |-> run.events]

\* the invocation has done `op` ("append", "mutate" or "notify"); a callback
\* that is notified looks at the store
did(run, op, target, cb, payload) ==
    [run EXCEPT !.steps = Append(@, [op      |-> op,
                                     target  |-> target,
                                     cb      |-> cb,
                                     payload |-> payload,
                                     seen    |-> IF op = "notify" THEN observed(run)
                                                 ELSE <<>>])]

\* the unsubscribe function a "once" callback of `registry` holds and has not called
ownUnsubscriber(unsubs, registry, cb) ==
    CHOOSE k \in DOMAIN unsubs :
        /\ unsubs[k].registry = registry /\ unsubs[k].cb = cb /\ unsubs[k].calls = 0
        /\ \A j \in DOMAIN unsubs :
              unsubs[j].registry = registry /\ unsubs[j].cb = cb /\ unsubs[j].calls = 0
                 => k <= j

\* cb(payload): the callback runs on the state as it is now
invoke(run, registry, cb, payload) ==
    LET called == did(run, "notify", registry, cb, payload)
    IN  IF cb \in OnceCallbacks
        THEN [called EXCEPT
                ![registry] = unsubscribeFrom(@, cb),
                !.unsubscribers[ownUnsubscriber(run.unsubscribers, registry, cb)].calls = 1]
        ELSE called

\* Array.prototype.forEach from index k on: the length is read once, before
\* the first call, and an index the array no longer has is passed over
RECURSIVE forEachFrom(_, _, _, _, _)
forEachFrom(run, registry, payload, k, len) ==
    IF k > len THEN run
    ELSE IF k > Len(run[registry]) THEN forEachFrom(run, registry, payload, k + 1, len)
    ELSE forEachFrom(invoke(run, registry, run[registry][k], payload),
                     registry, payload, k + 1, len)

\* registry.forEach(cb => cb(payload))
forEach(run, registry, payload) ==
    forEachFrom(run, registry, payload, 1, Len(run[registry]))

\* the invocation returns: the store and the registries are as `run` left them
returned(run) ==
    /\ machines' = run.machines
    /\ transactions' = run.transactions
    /\ events' = run.events
    /\ hourlyRevenue' = run.hourlyRevenue
    /\ hourlyTraffic' = run.hourlyTraffic
    /\ txCounter' = run.txCounter
    /\ evCounter' = run.evCounter
    /\ txCallbacks' = run.txCallbacks
    /\ evCallbacks' = run.evCallbacks
    /\ updateCallbacks' = run.updateCallbacks
    /\ unsubscribers' = run.unsubscribers
    /\ steps' = run.steps

\* registry.push(cb) and the unsubscribe function it returns
subscribe(registry, cb) ==
    LET run == [running EXCEPT ![registry] = push(@, cb)]
    IN  /\ Len(unsubscribers) < MaxRegistrations
        /\ txCallbacks' = run.txCallbacks
        /\ evCallbacks' = run.evCallbacks
        /\ updateCallbacks' = run.updateCallbacks
        /\ unsubscribers' = Append(unsubscribers,
                                   [registry |-> registry, cb |-> cb, calls |-> 0])
        /\ UNCHANGED <<storeVars, timerVars, steps, analyticsVars>>

onTransaction == \E cb \in Callbacks : subscribe("txCallbacks", cb)

onSystemEvent == \E cb \in Callbacks : subscribe("evCallbacks", cb)

onUpdate == \E cb \in Callbacks : subscribe("updateCallbacks", cb)

\* a subscriber calls the unsubscribe function that registration k returned
unsubscribe(k) ==
    LET u   == unsubscribers[k]
        run == [running EXCEPT ![u.registry] = unsubscribeFrom(@, u.cb)]
    IN  /\ u.calls < MaxUnsubscribeCalls
        /\ txCallbacks' = run.txCallbacks
        /\ evCallbacks' = run.evCallbacks
        /\ updateCallbacks' = run.updateCallbacks
        /\ unsubscribers' = [unsubscribers EXCEPT ![k].calls = @ + 1]
        /\ UNCHANGED <<storeVars, timerVars, steps, analyticsVars>>

callUnsubscribe == \E k \in DOMAIN unsubscribers : unsubscribe(k)

---------------------------------------------------------------------------
(* Transaction generator *)

\* mutant: every machine can sell
onlineMachinesAll(ms) == machineOrder

\* s.machines.filter(m => m.status === "online" || m.status === "warning")
onlineMachines(ms) ==
    SelectSeq(machineOrder, LAMBDA m : ms[m].status = "online" \/ ms[m].status = "warning")

\* mutant: the last stocked slot of the product
findSlotLast(planogram, productId) ==
    LET hits == { i \in DOMAIN planogram :
                    planogram[i].productId = productId /\ planogram[i].stock > 0 }
    IN  IF hits = {} THEN 0 ELSE CHOOSE i \in hits : \A j \in hits : i >= j

\* machine.planogram.find(sl => sl.productId === product.id && sl.stock > 0):
\* the index of the slot found, 0 for undefined
findSlot(planogram, productId) ==
    LET hits == { i \in DOMAIN planogram :
                    planogram[i].productId = productId /\ planogram[i].stock > 0 }
    IN  IF hits = {} THEN 0 ELSE CHOOSE i \in hits : \A j \in hits : i <= j

\* mutant: a sale takes two units
decrementStockTwice(stock) == Max(0, stock - 2)

\* Math.max(0, slot.stock - 1)
decrementStock(stock) == Max(0, stock - 1)

\* new Date().getHours() at clock t
getHours(t) == t % 24

\* mutant: only the last unit warns
stockEventKindLate(stock) ==
    IF stock <= 1 /\ stock > 0 THEN "warning"
    ELSE IF stock = 0 THEN "empty"
    ELSE "none"

\* the stock event the new stock level calls for
stockEventKind(stock) ==
    IF stock <= 2 /\ stock > 0 THEN "warning"
    ELSE IF stock = 0 THEN "empty"
    ELSE "none"

\* mutant: a sale puts the machine on line
sellFromOnline(machine, slot, price, t) ==
    [machine EXCEPT !.planogram[slot].stock = decrementStock(@),
                    !.revenueToday = @ + price,
                    !.transactionsToday = @ + 1,
                    !.lastActivity = t,
                    !.status = "online"]

\* mutant: the sale is not counted
sellFromUncounted(machine, slot, price, t) ==
    [machine EXCEPT !.planogram[slot].stock = decrementStock(@),
                    !.revenueToday = @ + price,
                    !.lastActivity = t]

\* the machine after a successful sale from slot `slot`
sellFrom(machine, slot, price, t) ==
    [machine EXCEPT !.planogram[slot].stock = decrementStock(@),
                    !.revenueToday = @ + price,
                    !.transactionsToday = @ + 1,
                    !.lastActivity = t]

\* mutant: a declined payment sells too
slotOnly(success, slot) == slot # 0

\* if (success && slot)
successAndSlot(success, slot) == success /\ slot # 0

\* emitStockWarning: the event is appended untrimmed and delivered at once
emitStockWarning(run, machine, t) ==
    LET event    == stockWarningEvent(machine, run.evCounter + 1, t)
        appended == [run EXCEPT !.evCounter = @ + 1,
                                !.events = pushStockEvent(@, event)]
    IN  forEach(did(appended, "append", "events", "none", event.id),
                "evCallbacks", event.id)

\* emitStockEmpty: as emitStockWarning, with the out-of-stock event
emitStockEmpty(run, machine, t) ==
    LET event    == stockEmptyEvent(machine, run.evCounter + 1, t)
        appended == [run EXCEPT !.evCounter = @ + 1,
                                !.events = pushStockEvent(@, event)]
    IN  forEach(did(appended, "append", "events", "none", event.id),
                "evCallbacks", event.id)

\* simulateTransaction past its early return: `machine` is the machine picked
\* among the online ones, pRoll the product draw, sRoll the success roll.
\* The statements run in the order of the source.
simulateTransaction(machine, pRoll, sRoll) ==
    LET product  == weightedRandomProduct(pRoll)
        slot     == findSlot(machines[machine].planogram, product.id)
        success  == sRoll > 5
        t        == now + 1
        tx       == [id        |-> mintId("TX", txCounter + 1),
                     machineId |-> machine,
                     productId |-> product.id,
                     amount    |-> product.price,
                     timestamp |-> t,
                     success   |-> success]
        logged   == did([running EXCEPT !.txCounter = @ + 1,
                                        !.transactions = pushTransaction(@, tx)],
                        "append", "transactions", "none", tx.id)
        sold     == successAndSlot(success, slot)
        updated  == IF sold
                    THEN did([logged EXCEPT
                                !.machines[machine] = sellFrom(@, slot, product.price, t),
                                !.hourlyRevenue[getHours(t)] = @ + product.price,
                                !.hourlyTraffic[getHours(t)] = @ + 1],
                             "mutate", "machines", "none", tx.id)
                    ELSE logged
        kind     == IF sold
                    THEN stockEventKind(updated.machines[machine].planogram[slot].stock)
                    ELSE "none"
        warned   == IF kind = "warning" THEN emitStockWarning(updated, machine, t)
                    ELSE IF kind = "empty" THEN emitStockEmpty(updated, machine, t)
                    ELSE updated
        terminal == createTerminalEvent(machine, success, warned.evCounter + 1, t)
        closed   == did([warned EXCEPT !.evCounter = @ + 1,
                                       !.events = pushEvent(@, terminal)],
                        "append", "events", "none", terminal.id)
        toldTx   == forEach(closed, "txCallbacks", tx.id)
        toldEv   == forEach(toldTx, "evCallbacks", terminal.id)
        toldAll  == forEach(toldEv, "updateCallbacks", noId)
    IN  /\ toldAll.evCounter <= MaxEvCounter
        /\ returned(toldAll)
        /\ now' = t
        /\ selectedStatus' = [i \in 1 .. (txCounter + 1) |->
                                IF i <= txCounter THEN selectedStatus[i]
                                ELSE machines[machine].status]

\* the transaction timer fires
txTimerFire ==
    /\ \E timer \in activeTimers : timer.kind = "tx"
    /\ txCounter < MaxTxCounter
    /\ evCounter < MaxEvCounter
    /\ IF Len(onlineMachines(machines)) = 0
       THEN /\ steps' = <<>>
            /\ UNCHANGED <<storeVars, registryVars>>
       ELSE \E k \in 1 .. Len(onlineMachines(machines)) :
              \E pRoll \in ProductRolls, sRoll \in SuccessRolls :
                 simulateTransaction(onlineMachines(machines)[k], pRoll, sRoll)
    /\ UNCHANGED <<timerVars, analyticsVars>>

---------------------------------------------------------------------------
(* System-event generator *)

\* mutant: the branch takes the machine off line
afterHardwareErrorOffline(machine, statusRoll) ==
    IF statusRoll > 50
    THEN [machine EXCEPT !.status = "offline", !.hardware.motorBoard = "ERROR"]
    ELSE machine

\* mutant: the status is left as it was
afterHardwareErrorBoardOnly(machine, statusRoll) ==
    IF statusRoll > 50 THEN [machine EXCEPT !.hardware.motorBoard = "ERROR"] ELSE machine

\* mutant: the motor board is left as it was
afterHardwareErrorStatusOnly(machine, statusRoll) ==
    IF statusRoll > 50 THEN [machine EXCEPT !.status = "error"] ELSE machine

\* hardware-error branch: the machine after the status roll
afterHardwareError(machine, statusRoll) ==
    IF statusRoll > 50
    THEN [machine EXCEPT !.status = "error", !.hardware.motorBoard = "ERROR"]
    ELSE machine

\* mutant: the demotion does not look at the status
afterHardwareWarningAlways(machine) == [machine EXCEPT !.status = "warning"]

\* mutant: a warning wakes an off-line machine
afterHardwareWarningFromOffline(machine) ==
    IF machine.status \in {"online", "offline"}
    THEN [machine EXCEPT !.status = "warning"]
    ELSE machine

\* mutant: the demotion flags the bill validator
afterHardwareWarningFlagged(machine) ==
    IF machine.status = "online"
    THEN [machine EXCEPT !.status = "warning", !.hardware.billValidator = "ERROR"]
    ELSE machine

\* hardware-warning branch
afterHardwareWarning(machine) ==
    IF machine.status = "online" THEN [machine EXCEPT !.status = "warning"] ELSE machine

\* 60 + Math.floor(Math.random() * 40)
newSignalOf(r) == 60 + floorOf(r, 40)

\* connectivity branch
afterConnectivity(machine, newSignal) ==
    [machine EXCEPT !.hardware.connectivity = newSignal]

\* mutant: a machine in error heals too
afterHeartbeatFromError(machine, healRoll) ==
    IF machine.status \in {"warning", "error"} /\ healRoll > 70
    THEN [machine EXCEPT !.status = "online",
                         !.hardware.motorBoard = "OK",
                         !.hardware.billValidator = "OK"]
    ELSE machine

\* heartbeat branch: the machine after the self-heal roll
afterHeartbeat(machine, healRoll) ==
    IF machine.status = "warning" /\ healRoll > 70
    THEN [machine EXCEPT !.status = "online",
                         !.hardware.motorBoard = "OK",
                         !.hardware.billValidator = "OK"]
    ELSE machine

\* the tail every branch shares: the machine as the branch left it, the event appended
finishSystemEvent(m, machine, event) ==
    LET counted == [running EXCEPT !.evCounter = @ + 1]
        updated == IF machine # machines[m]
                   THEN did([counted EXCEPT !.machines[m] = machine],
                            "mutate", "machines", "none", event.id)
                   ELSE counted
        logged  == did([updated EXCEPT !.events = pushEvent(@, event)],
                       "append", "events", "none", event.id)
        toldEv  == forEach(logged, "evCallbacks", event.id)
        toldAll == forEach(toldEv, "updateCallbacks", noId)
    IN  /\ returned(toldAll)
        /\ now' = now + 1
        /\ UNCHANGED selectedStatus

\* simulateSystemEvent on machine m with branch roll `roll`
simulateSystemEvent(m, roll) ==
    IF roll > 85 THEN
        \E pick \in picksOf(errorMessages), statusRoll \in HalfRolls :
            finishSystemEvent(m, afterHardwareError(machines[m], statusRoll),
                createHardwareEvent(m, "error", pick, evCounter + 1, now + 1))
    ELSE IF roll > 65 THEN
        \E pick \in picksOf(warningMessages) :
            finishSystemEvent(m, afterHardwareWarning(machines[m]),
                createHardwareEvent(m, "warning", pick, evCounter + 1, now + 1))
    ELSE IF roll > 50 THEN
        \E sRoll \in SignalRolls :
            finishSystemEvent(m, afterConnectivity(machines[m], newSignalOf(sRoll)),
                createConnectivityEvent(m, newSignalOf(sRoll), evCounter + 1, now + 1))
    ELSE
        \E pick \in picksOf(heartbeatCodes), healRoll \in HealRolls :
            finishSystemEvent(m, afterHeartbeat(machines[m], healRoll),
                createHeartbeatEvent(m, pick, evCounter + 1, now + 1))

\* the system-event timer fires
evTimerFire ==
    /\ \E timer \in activeTimers : timer.kind = "ev"
    /\ evCounter < MaxEvCounter
    /\ \E m \in MachineIds, roll \in BranchRolls : simulateSystemEvent(m, roll)
    /\ UNCHANGED <<timerVars, analyticsVars>>

---------------------------------------------------------------------------

Next ==
    \/ startSimulation
    \/ stopSimulation
    \/ txTimerFire
    \/ evTimerFire

Spec == Init /\ [][Next]_vars

\* The engine with subscribers: the fleet starts with its first machine
\* online and its second off line, callbacks are registered and unsubscribed at any moment, and the
\* generators run MaxObservedTicks times.
BusInit == Init /\ machines[1].status = "online" /\ machines[2].status = "offline"

BusNext ==
    \/ onTransaction
    \/ onSystemEvent
    \/ onUpdate
    \/ callUnsubscribe
    \/ startSimulation
    \/ stopSimulation
    \/ (now < MaxObservedTicks /\ txTimerFire)
    \/ (now < MaxObservedTicks /\ evTimerFire)

BusSpec == BusInit /\ [][BusNext]_vars

\* getFleetStats as a function of the snapshot it reads: the machines carry
\* any status, revenue and transaction count of the sets below.
Statuses == {"online", "warning", "error", "offline"}

StatsRevenues == {0, 450, 455}

StatsCounts == {0, 1, 2}

StatsFleets ==
    LET base == CHOOSE fleet \in generateMachines(0) : TRUE
    IN  { [m \in MachineIds |->
             [base[m] EXCEPT !.status = st[m],
                             !.revenueToday = rev[m],
                             !.transactionsToday = n[m]]] :
            st \in [MachineIds -> Statuses],
            rev \in [MachineIds -> StatsRevenues],
            n \in [MachineIds -> StatsCounts] }

\* the stock levels the first slot of a machine is set to
StatsStocks == {0, 1, 3}

\* the store of an engine that has made nothing yet, without its machines
BlankStore ==
    /\ transactions = <<>>
    /\ events = <<>>
    /\ hourlyRevenue = initialHourlyRevenue(0)
    /\ hourlyTraffic = initialHourlyTraffic(hourlyRevenue, 0)
    /\ txCounter = 0
    /\ evCounter = 0
    /\ now = 0
    /\ selectedStatus = <<>>
    /\ isRunning = FALSE
    /\ txInterval = 0
    /\ evInterval = 0
    /\ activeTimers = {}
    /\ nextTimerId = 1
    /\ txCallbacks = <<>>
    /\ evCallbacks = <<>>
    /\ updateCallbacks = <<>>
    /\ unsubscribers = <<>>
    /\ steps = <<>>

StatsInit ==
    /\ machines \in StatsFleets
    /\ BlankStore
    /\ fleetStats = getFleetStats(machines, events, now)
    /\ selection = noSelection
    /\ reading = noReading

\* one machine of the snapshot changes and getFleetStats is called again
readFleetStats ==
    /\ \E m \in MachineIds, st \in Statuses, rev \in StatsRevenues, n \in StatsCounts :
          machines' = [machines EXCEPT ![m].status = st,
                                       ![m].revenueToday = rev,
                                       ![m].transactionsToday = n]
    /\ fleetStats' = getFleetStats(machines', events, now)
    /\ UNCHANGED <<transactions, events, hourlyRevenue, hourlyTraffic, txCounter,
                   evCounter, now, selectedStatus, timerVars, registryVars, steps,
                   selection, reading>>

\* the first slot of one machine is sold down or refilled and getFleetStats
\* is called again
readStockLevels ==
    /\ \E m \in MachineIds, stock \in StatsStocks :
          machines' = [machines EXCEPT ![m].planogram[1].stock = stock]
    /\ fleetStats' = getFleetStats(machines', events, now)
    /\ UNCHANGED <<transactions, events, hourlyRevenue, hourlyTraffic, txCounter,
                   evCounter, now, selectedStatus, timerVars, registryVars, steps,
                   selection, reading>>

StatsNext == readFleetStats \/ readStockLevels

StatsSpec == StatsInit /\ [][StatsNext]_vars

\* weightedRandomProduct as a function of its draw: Math.random() takes every
\* hundredth of [0, 1).
SelectRolls == 0 .. 99

\* what one call with Math.random() = r/100 shows: the draw, the product
\* returned and the round of the loop that returned it
selectionOf(r) ==
    LET at == returnedAt(r * SumWeights(PRODUCTS), 1)
    IN  [random  |-> r,
         product |-> (IF at = 0 THEN PRODUCTS[1] ELSE PRODUCTS[at]).id,
         at      |-> at]

SelectInit ==
    /\ machines = CHOOSE fleet \in generateMachines(0) : TRUE
    /\ BlankStore
    /\ fleetStats = getFleetStats(machines, events, now)
    /\ \E r \in SelectRolls :
          selection = selectionOf(r)
    /\ reading = noReading

\* weightedRandomProduct is called and returns
drawProduct ==
    /\ \E r \in SelectRolls :
          selection' = selectionOf(r)
    /\ UNCHANGED <<storeVars, timerVars, registryVars, steps, fleetStats, reading>>

SelectSpec == SelectInit /\ [][drawProduct]_vars

\* the computed-data helpers as functions of the store they read: the
\* transaction history is any history of at most MaxTransactions entries.
ReadHistories ==
    UNION { { [i \in 1 .. k |-> [id        |-> mintId("TX", k - i + 1),
                                 machineId |-> 1,
                                 productId |-> PRODUCTS[bought[i]].id,
                                 amount    |-> PRODUCTS[bought[i]].price,
                                 timestamp |-> 0,
                                 success   |-> paid[i]]] :
                bought \in [1 .. k -> DOMAIN PRODUCTS], paid \in [1 .. k -> BOOLEAN] } :
            k \in 0 .. MaxTransactions }

\* the event history is empty or holds one hardware error logged at clock 0
ReadEvents ==
    { <<>>,
      << createHardwareEvent(1, "error", CHOOSE pick \in picksOf(errorMessages) : TRUE, 1, 0) >> }

\* how long after the last call the next getFleetStats call is made
ReadWaits == {1, FiveMinutes - 1}

ReadInit ==
    /\ machines = CHOOSE fleet \in generateMachines(0) : TRUE
    /\ transactions \in ReadHistories
    /\ events \in ReadEvents
    /\ hourlyRevenue = initialHourlyRevenue(0)
    /\ hourlyTraffic = initialHourlyTraffic(hourlyRevenue, 0)
    /\ txCounter = Len(transactions)
    /\ evCounter = Len(events)
    /\ now = 0
    /\ selectedStatus = <<>>
    /\ isRunning = FALSE
    /\ txInterval = 0
    /\ evInterval = 0
    /\ activeTimers = {}
    /\ nextTimerId = 1
    /\ txCallbacks = <<>>
    /\ evCallbacks = <<>>
    /\ updateCallbacks = <<>>
    /\ unsubscribers = <<>>
    /\ steps = <<>>
    /\ fleetStats = getFleetStats(machines, events, now)
    /\ selection = noSelection
    /\ reading = noReading

\* getTopProducts(n) is called and returns
readTopProducts ==
    /\ \E n \in 0 .. MaxN :
          reading' = [fn |-> "getTopProducts", n |-> n,
                      result |-> getTopProducts(transactions, machines, n)]
    /\ UNCHANGED <<storeVars, timerVars, registryVars, steps, fleetStats, selection>>

\* getBottomProducts(n) is called and returns
readBottomProducts ==
    /\ \E n \in 0 .. MaxN :
          reading' = [fn |-> "getBottomProducts", n |-> n,
                      result |-> getBottomProducts(transactions, n)]
    /\ UNCHANGED <<storeVars, timerVars, registryVars, steps, fleetStats, selection>>

\* getHourlyData() is called and returns
readHourlyData ==
    /\ reading' = [fn |-> "getHourlyData", n |-> 0,
                   result |-> getHourlyData(hourlyRevenue, hourlyTraffic)]
    /\ UNCHANGED <<storeVars, timerVars, registryVars, steps, fleetStats, selection>>

\* getSalesHeatmap() is called and returns
readSalesHeatmap ==
    /\ \E rolls \in [DOMAIN heatCells -> HeatRolls] :
          reading' = [fn |-> "getSalesHeatmap", n |-> 0, result |-> getSalesHeatmap(rolls)]
    /\ UNCHANGED <<storeVars, timerVars, registryVars, steps, fleetStats, selection>>

\* getFleetStats() is called some time after the last call and returns
readFleetStatsLater ==
    /\ \E wait \in ReadWaits :
          /\ now + wait <= MaxReadClock
          /\ now' = now + wait
    /\ reading' = [fn |-> "getFleetStats", n |-> 0,
                   result |-> getFleetStats(machines, events, now')]
    /\ UNCHANGED <<machines, transactions, events, hourlyRevenue, hourlyTraffic,
                   txCounter, evCounter, selectedStatus, timerVars, registryVars, steps,
                   fleetStats, selection>>

ReadNext ==
    \/ readTopProducts
    \/ readBottomProducts
    \/ readHourlyData
    \/ readSalesHeatmap
    \/ readFleetStatsLater

ReadSpec == ReadInit /\ [][ReadNext]_vars

---------------------------------------------------------------------------
(* Properties *)

\* the number a digit string reads as
RECURSIVE valueOf(_)
valueOf(ds) == IF ds = <<>> THEN 0 ELSE 10 * valueOf(SubSeq(ds, 1, Len(ds) - 1)) + ds[Len(ds)]

\* the sequence number an id carries
seqOf(id) == valueOf(id.digits)

\* the entries of a history
Entries(history) == { history[i] : i \in DOMAIN history }

\* a history runs from the newest entry to the oldest
NewestFirst(history) ==
    \A i, j \in DOMAIN history :
        i < j => /\ seqOf(history[i].id) > seqOf(history[j].id)
                 /\ history[i].timestamp > history[j].timestamp

\* every entry that leaves a history in a step is the oldest it held
EvictsOldest(before, after) ==
    \A gone \in Entries(before) \ Entries(after) :
        \A e \in Entries(before) :
            /\ seqOf(gone.id) <= seqOf(e.id)
            /\ gone.timestamp <= e.timestamp

\* the live timers of one kind
timersOf(kind) == { t \in activeTimers : t.kind = kind }

\* C1: the event history never holds more than its capacity.
EventsWithinCapacity == Len(events) <= MaxEvents

\* C2: both histories are ordered newest-first, by sequence number and by
\* creation time.
HistoriesNewestFirst == NewestFirst(transactions) /\ NewestFirst(events)

\* C3: an entry evicted from a history is the oldest entry the history held.
EvictionTakesOldest ==
    [][EvictsOldest(transactions, transactions') /\ EvictsOldest(events, events')]_vars

\* C4: the transaction history never holds more than its capacity.
TransactionsWithinCapacity == Len(transactions) <= MaxTransactions

\* C4 witness: the history is full and a transaction has been evicted.
TransactionEvicted == Len(transactions) = MaxTransactions /\ txCounter > MaxTransactions

\* C5: every slot of every machine has 0 <= stock <= maxStock.
StockWithinBounds ==
    \A m \in MachineIds : \A sl \in DOMAIN machines[m].planogram :
        /\ 0 <= machines[m].planogram[sl].stock
        /\ machines[m].planogram[sl].stock <= machines[m].planogram[sl].maxStock

\* C5 witness: one slot is sold out while another machine still holds a full slot.
SoldOutAndFullSlots ==
    /\ \E m \in MachineIds : \E sl \in DOMAIN machines[m].planogram :
          machines[m].planogram[sl].stock = 0
    /\ \E m \in MachineIds : \E sl \in DOMAIN machines[m].planogram :
          machines[m].planogram[sl].stock = machines[m].planogram[sl].maxStock

\* C6: every transaction in the history was made on a machine that was online
\* or in warning when it was selected.
TransactionsFromSellingMachines ==
    \A i \in DOMAIN transactions :
        selectedStatus[seqOf(transactions[i].id)] \in {"online", "warning"}

\* C7: an offline machine stays offline in every step.
OfflineStaysOffline ==
    [][\A m \in MachineIds :
          machines[m].status = "offline" => machines'[m].status = "offline"]_vars

\* C8: no step takes a machine that is not offline to offline.
NeverBecomesOffline ==
    [][\A m \in MachineIds :
          machines[m].status # "offline" => machines'[m].status # "offline"]_vars

\* C8 witness: the hardware-error branch has put a machine into error.
ErrorBranchTaken ==
    \E m \in MachineIds : \E i \in DOMAIN events :
        /\ machines[m].status = "error"
        /\ machines[m].hardware.billValidator = "OK"
        /\ events[i].machineId = m
        /\ events[i].category = "hardware"
        /\ events[i].type = "error"

\* C9: a machine in error stays in error.
ErrorStaysError ==
    [][\A m \in MachineIds :
          machines[m].status = "error" => machines'[m].status = "error"]_vars

\* C9 witness: the warning branch and the heartbeat branch have both run on a
\* machine that has been in error since generation.
TicksOnErrorMachine ==
    \E m \in MachineIds : \E i, j \in DOMAIN events :
        /\ machines[m].status = "error"
        /\ machines[m].hardware.billValidator = "ERROR"
        /\ events[i].machineId = m /\ events[i].category = "system"
        /\ events[j].machineId = m /\ events[j].category = "hardware"
        /\ events[j].type = "warning"

\* C10: at most one transaction timer and one system-event timer are live, and
\* a step that starts and ends in the running state leaves the timers alone.
StartIsIdempotent ==
    /\ [](Cardinality(timersOf("tx")) <= 1 /\ Cardinality(timersOf("ev")) <= 1)
    /\ [][isRunning /\ isRunning' =>
            UNCHANGED <<txInterval, evInterval, activeTimers, nextTimerId>>]_vars

\* C10 witness: the simulation runs on the timers of a second start.
RestartedOnce ==
    /\ isRunning
    /\ txInterval > 2
    /\ timersOf("tx") = {[id |-> txInterval, kind |-> "tx"]}
    /\ timersOf("ev") = {[id |-> evInterval, kind |-> "ev"]}

\* C11: stopSimulation can be called in every state; whenever the simulation
\* is not running no timer is live, and a step that starts and ends in the
\* stopped state runs no generator: the store and both counters stay as they are.
StopIsSafe ==
    /\ [](ENABLED stopSimulation)
    /\ [](~isRunning => activeTimers = {})
    /\ [][~isRunning /\ ~isRunning' =>
            UNCHANGED <<machines, transactions, events, hourlyRevenue, hourlyTraffic,
                        txCounter, evCounter, now>>]_vars

\* C11 witness: the simulation has run generators and has been stopped: the
\* handles of the cleared timers are still in the store.
StoppedAfterTicks ==
    /\ ~isRunning
    /\ txInterval # 0
    /\ evInterval # 0
    /\ now > 0
    /\ activeTimers = {}

\* the three registries by name
registries ==
    [txCallbacks |-> txCallbacks, evCallbacks |-> evCallbacks,
     updateCallbacks |-> updateCallbacks]

\* how many times cb stands in a registry
occurrences(arr, cb) == Cardinality({ i \in DOMAIN arr : arr[i] = cb })

\* C12: the first call of an unsubscribe function takes one registration of
\* its callback out of its registry, and every later call of the same
\* function leaves the three registries as they are.
UnsubscribeTwiceIsNoOp ==
    [][\A k \in DOMAIN unsubscribers :
          LET u == unsubscribers[k]
          IN  unsubscribers'[k].calls > u.calls =>
                IF u.calls = 0
                THEN occurrences(registries'[u.registry], u.cb)
                        = occurrences(registries[u.registry], u.cb) - 1
                ELSE registries' = registries]_vars

\* the steps of one kind an invocation took on one target
stepsOf(log, op, target) ==
    SelectSeq(log, LAMBDA st : st.op = op /\ st.target = target)

\* the callbacks an invocation called with `payload` from one registry, in order
deliveredTo(log, registry, payload) ==
    LET calls == SelectSeq(stepsOf(log, "notify", registry),
                           LAMBDA st : st.payload = payload)
    IN  [i \in DOMAIN calls |-> calls[i].cb]

\* the id of the first event an invocation appended
firstEventOf(log) == stepsOf(log, "append", "events")[1].payload

\* C13: an emission calls every callback that is in its registry, once each,
\* in registration order.  Stated for the emissions whose registry is the one
\* the invocation started with: the transaction, the generic update and the
\* first event of an invocation.
DeliveredOnceInOrder ==
    [][now' # now =>
          /\ txCounter' # txCounter =>
                deliveredTo(steps', "txCallbacks", transactions'[1].id) = txCallbacks
          /\ deliveredTo(steps', "updateCallbacks", noId) = updateCallbacks
          /\ deliveredTo(steps', "evCallbacks", firstEventOf(steps')) = evCallbacks]_vars

\* C14: within one invocation the transaction subscribers are called first,
\* then the event subscribers, then the generic-update subscribers: no call
\* of an event callback comes before a call of a transaction callback, and no
\* call of an update callback before a call of a transaction or event callback.
NotifiedInRegistryOrder ==
    \A i, j \in DOMAIN steps :
        i < j /\ steps[i].op = "notify" /\ steps[j].op = "notify" =>
            /\ ~(steps[i].target = "evCallbacks" /\ steps[j].target = "txCallbacks")
            /\ ~(steps[i].target = "updateCallbacks"
                    /\ steps[j].target \in {"txCallbacks", "evCallbacks"})

\* the statements of the last invocation ran in the order mutation, append,
\* notification
MutateAppendNotify ==
    \A i, j \in DOMAIN steps :
        i < j => /\ ~(steps[i].op = "append" /\ steps[j].op = "mutate")
                 /\ ~(steps[i].op = "notify" /\ steps[j].op \in {"append", "mutate"})

\* C15: every mutation and every history append of an invocation is made
\* before its first callback is called: no callback observes the store with
\* an append or a mutation of the invocation still to come, each sees the
\* store as the invocation leaves it.
NothingPendingWhenNotified ==
    \A i \in DOMAIN steps :
        steps[i].op = "notify" =>
            steps[i].seen = [machines |-> machines, transactions |-> transactions,
                             events |-> events]

\* the entries a step adds to a history
added(before, after) == Entries(after) \ Entries(before)

\* the events of one category among a set of events
ofCategory(evs, category) == { e \in evs : e.category = category }

\* C16: a transaction-generator invocation that makes a transaction appends
\* exactly one Transaction and exactly one terminal-log event, on the same
\* machine, with code CARD_TRANSACTION_COMPLETED when the transaction
\* succeeded and CARD_DECLINED_RETRY when it failed.
OneTransactionOneTerminalEvent ==
    [][txCounter' # txCounter =>
          LET newTx    == added(transactions, transactions')
              terminal == ofCategory(added(events, events'), "transaction")
          IN  /\ Cardinality(newTx) = 1
              /\ Cardinality(terminal) = 1
              /\ \A tx \in newTx : \A e \in terminal :
                    /\ e.machineId = tx.machineId
                    /\ e.code = IF tx.success THEN "CARD_TRANSACTION_COMPLETED"
                                ELSE "CARD_DECLINED_RETRY"]_vars

\* C16 witness: the newest transaction was declined and the newest event is
\* the terminal's log line for it.
DeclinedTransactionLogged ==
    /\ txCounter > SeedCount
    /\ ~transactions[1].success
    /\ events[1].code = "CARD_DECLINED_RETRY"
    /\ events[1].timestamp = transactions[1].timestamp

\* C17: after a successful sale from a found slot the invocation appends
\* exactly one STOCK_LOW_WARNING when the slot is left with 1 or 2 units,
\* exactly one STOCK_EMPTY_ALERT when it is left with none, and no stock event
\* when 3 or more are left; a failed or slot-less transaction appends none.
StockEventMatchesLevel ==
    [][txCounter' # txCounter =>
          LET tx      == transactions'[1]
              slot    == findSlot(machines[tx.machineId].planogram, tx.productId)
              stockEv == ofCategory(added(events, events'), "stock")
              codes   == { e.code : e \in stockEv }
          IN  IF tx.success /\ slot # 0
              THEN LET left == machines'[tx.machineId].planogram[slot].stock
                   IN  /\ left \in {1, 2} =>
                            Cardinality(stockEv) = 1 /\ codes = {"STOCK_LOW_WARNING"}
                       /\ left = 0 =>
                            Cardinality(stockEv) = 1 /\ codes = {"STOCK_EMPTY_ALERT"}
                       /\ left >= 3 => stockEv = {}
                       /\ \A e \in stockEv : e.machineId = tx.machineId
              ELSE stockEv = {}]_vars

\* C17 witness: two sales on one machine have made three events: the sale
\* that left a slot with 5 units made no stock event, the sale that left a
\* slot with 2 units made a low-stock warning.
WarnedAtTwoNotAtFive ==
    /\ txCounter = SeedCount + 2
    /\ evCounter = SeedCount + 3
    /\ \A i \in 1 .. 2 : transactions[i].success
    /\ \E m \in MachineIds :
          /\ \E sl \in DOMAIN machines[m].planogram : machines[m].planogram[sl].stock = 5
          /\ \E sl \in DOMAIN machines[m].planogram : machines[m].planogram[sl].stock = 2
          /\ \E i \in DOMAIN events :
                events[i].code = "STOCK_LOW_WARNING" /\ events[i].machineId = m

\* C18: a successful sale from a found slot lowers that slot's stock by 1,
\* adds the product's price to the machine's revenueToday and 1 to its
\* transactionsToday, adds the price and 1 to the current hour's revenue and
\* traffic, and changes no other slot, machine or hour.
SaleUpdatesExactly ==
    [][txCounter' # txCounter =>
          LET tx    == transactions'[1]
              m     == tx.machineId
              slot  == findSlot(machines[m].planogram, tx.productId)
              price == getProductById(tx.productId).price
              hour  == getHours(tx.timestamp)
          IN  tx.success /\ slot # 0 =>
                /\ machines' = [machines EXCEPT
                                  ![m].planogram[slot].stock = @ - 1,
                                  ![m].revenueToday = @ + price,
                                  ![m].transactionsToday = @ + 1,
                                  ![m].lastActivity = tx.timestamp]
                /\ hourlyRevenue' = [hourlyRevenue EXCEPT ![hour] = @ + price]
                /\ hourlyTraffic' = [hourlyTraffic EXCEPT ![hour] = @ + 1]]_vars

\* C18 witness: the newest transaction is a sale that took a unit from a slot.
SaleMade ==
    /\ txCounter > SeedCount
    /\ transactions[1].success
    /\ machines[transactions[1].machineId].lastActivity = transactions[1].timestamp
    /\ transactions[1].timestamp > 0

\* the ids of a history are well formed: the prefix, six decimal digits, a
\* number the counter has reached, no id twice
WellFormedIds(history, prefix, counter) ==
    /\ \A i \in DOMAIN history :
          /\ history[i].id.prefix = prefix
          /\ Len(history[i].id.digits) = 6
          /\ \A d \in DOMAIN history[i].id.digits : history[i].id.digits[d] \in 0 .. 9
          /\ seqOf(history[i].id) \in 1 .. counter
    /\ \A i, j \in DOMAIN history : history[i].id = history[j].id => i = j

\* every entry a step creates carries a counter value of its own that the
\* step has counted
FreshIds(before, after, counter, counterAfter) ==
    /\ counterAfter >= counter
    /\ \A e \in added(before, after) : seqOf(e.id) \in (counter + 1) .. counterAfter
    /\ Cardinality({ seqOf(e.id) : e \in added(before, after) }) = counterAfter - counter

\* C19: the counters never decrease, every id is TX- or EV- followed by the
\* counter value at creation padded with zeros to 6 digits, and no two
\* transactions and no two events, seeds included, carry the same id.
IdsFromCounters ==
    /\ [](WellFormedIds(transactions, "TX", txCounter)
             /\ WellFormedIds(events, "EV", evCounter))
    /\ [][/\ FreshIds(transactions, transactions', txCounter, txCounter')
          /\ FreshIds(events, events', evCounter, evCounter')]_vars

\* C19 witness: the seeds are in the histories and both generators have
\* created entries, a stock event among them.
IdsOfSeedsAndTicks ==
    /\ txCounter > SeedCount
    /\ evCounter > SeedCount + 2
    /\ \E i \in DOMAIN transactions : seqOf(transactions[i].id) = 1
    /\ \E i \in DOMAIN events : events[i].category = "stock"
    /\ \E i \in DOMAIN events : events[i].category \in {"hardware", "connectivity", "system"}

\* the sum of f over a finite set
RECURSIVE SumOver(_, _)
SumOver(S, f) ==
    IF S = {} THEN 0
    ELSE LET x == CHOOSE y \in S : TRUE IN f[x] + SumOver(S \ {x}, f)

\* C20: getFleetStats returns the sum of revenueToday as totalRevenue, the
\* sum of transactionsToday as totalTransactions, four per-status counts that
\* add up to the number of machines, and as atv the quotient of the two sums
\* rounded to the nearest integer, or 0 when there is no transaction.
FleetStatsCorrect ==
    LET revenue == SumOver(MachineIds, [m \in MachineIds |-> machines[m].revenueToday])
        count   == SumOver(MachineIds, [m \in MachineIds |-> machines[m].transactionsToday])
        having(status) == Cardinality({ m \in MachineIds : machines[m].status = status })
    IN  /\ fleetStats.totalRevenue = revenue
        /\ fleetStats.totalTransactions = count
        /\ fleetStats.total = Cardinality(MachineIds)
        /\ fleetStats.online = having("online")
        /\ fleetStats.warning = having("warning")
        /\ fleetStats.error = having("error")
        /\ fleetStats.offline = having("offline")
        /\ fleetStats.online + fleetStats.warning + fleetStats.error + fleetStats.offline
              = fleetStats.total
        /\ IF count > 0
           THEN /\ 2 * count * fleetStats.atv - count <= 2 * revenue
                /\ 2 * revenue < 2 * count * fleetStats.atv + count
           ELSE fleetStats.atv = 0

\* C20 witness: machines of different status, and a quotient that lies
\* exactly between two integers and is rounded up.
HalfRoundedUp ==
    /\ fleetStats.totalTransactions > 0
    /\ 2 * fleetStats.totalRevenue = (2 * fleetStats.atv - 1) * fleetStats.totalTransactions
    /\ fleetStats.online = 1
    /\ fleetStats.error = 1

\* C21: lowStockSlots is the number of slots in the fleet that hold 1 or 2
\* units; a slot with no unit left is not counted.
LowStockCountsOneOrTwo ==
    fleetStats.lowStockSlots =
        Cardinality({ <<m, sl>> \in MachineIds \X SlotIds :
                        /\ machines[m].planogram[sl].stock >= 1
                        /\ machines[m].planogram[sl].stock <= 2 })

\* the place of a product in the catalog
catalogIndex(id) == CHOOSE i \in DOMAIN PRODUCTS : PRODUCTS[i].id = id

\* the weights of the products before place i, added up
weightBefore(i) == SumWeights(SubSeq(PRODUCTS, 1, i - 1))

\* the hundredths (r - 1, r] of the draw, named by r, that select product i
cellsOf(i) == { r \in 1 .. 100 : weightedRandomProduct(r).id = PRODUCTS[i].id }

\* C22: the draws that select a product are those between the weights before
\* it and its own weight added to them, an interval as long as the weight: the
\* share of the uniform draw that selects a product of weight w is
\* w / totalWeight.
SelectionProportionalToWeight ==
    LET total == SumWeights(PRODUCTS)
        i     == catalogIndex(selection.product)
    IN  /\ selection.random = 0 => i = 1
        /\ selection.random > 0 =>
              /\ 100 * weightBefore(i) < selection.random * total
              /\ selection.random * total <= 100 * (weightBefore(i) + PRODUCTS[i].weight)
        /\ \A j \in DOMAIN PRODUCTS :
              Cardinality(cellsOf(j)) * total = PRODUCTS[j].weight * 100

\* C22 witness: the last draw of the first product's interval has selected it.
DrawAtTopOfInterval ==
    /\ selection.product = PRODUCTS[1].id
    /\ selection.random * SumWeights(PRODUCTS) = 100 * PRODUCTS[1].weight

\* no machine is online or in warning
NoOperationalMachine ==
    \A m \in MachineIds : machines[m].status \notin {"online", "warning"}

\* C23: while no machine is online or in warning, the transaction generator
\* does nothing: no step makes a transaction, a terminal or a stock event,
\* touches the hourly aggregates or calls a transaction subscriber, and a
\* generator invocation that appends no event leaves the machines and the
\* event counter alone and calls no subscriber at all.
IdleTickIsNoOp ==
    [][NoOperationalMachine =>
          /\ txCounter' = txCounter
          /\ transactions' = transactions
          /\ hourlyRevenue' = hourlyRevenue
          /\ hourlyTraffic' = hourlyTraffic
          /\ \A e \in added(events, events') : e.category \notin {"transaction", "stock"}
          /\ steps' # steps => stepsOf(steps', "notify", "txCallbacks") = <<>>
          /\ events' = events =>
                /\ machines' = machines
                /\ evCounter' = evCounter
                /\ steps' # steps => steps' = <<>>]_vars

\* C23 witness: with subscribers registered and no machine left to sell, the
\* transaction timer has fired after the last event and has done nothing.
IdleTickTaken ==
    /\ NoOperationalMachine
    /\ isRunning
    /\ now > 0
    /\ steps = <<>>
    /\ txCallbacks # <<>>
    /\ updateCallbacks # <<>>

\* C24: a transaction whose payment failed, or whose product is in no stocked
\* slot of its machine, changes no slot's stock, no machine's revenueToday,
\* transactionsToday or lastActivity and neither hourly array, and still
\* appends one Transaction and one terminal-log event.
NoSaleLeavesStoreAlone ==
    [][txCounter' # txCounter =>
          LET tx      == transactions'[1]
              stocked == \E sl \in DOMAIN machines[tx.machineId].planogram :
                            /\ machines[tx.machineId].planogram[sl].productId = tx.productId
                            /\ machines[tx.machineId].planogram[sl].stock > 0
          IN  ~tx.success \/ ~stocked =>
                /\ \A m \in MachineIds :
                      /\ machines'[m].revenueToday = machines[m].revenueToday
                      /\ machines'[m].transactionsToday = machines[m].transactionsToday
                      /\ machines'[m].lastActivity = machines[m].lastActivity
                      /\ \A sl \in DOMAIN machines[m].planogram :
                            machines'[m].planogram[sl].stock = machines[m].planogram[sl].stock
                /\ hourlyRevenue' = hourlyRevenue
                /\ hourlyTraffic' = hourlyTraffic
                /\ Cardinality(added(transactions, transactions')) = 1
                /\ Cardinality(ofCategory(added(events, events'), "transaction")) = 1]_vars

\* C24 witness: the newest transaction was paid for a product its machine has
\* in no slot, and the newest event is the terminal's log line for it.
PaidWithoutSlot ==
    /\ txCounter > SeedCount
    /\ transactions[1].success
    /\ transactions[1].timestamp > 0
    /\ \A sl \in DOMAIN machines[transactions[1].machineId].planogram :
          machines[transactions[1].machineId].planogram[sl].productId # transactions[1].productId
    /\ events[1].category = "transaction"
    /\ events[1].timestamp = transactions[1].timestamp
    /\ machines[transactions[1].machineId].lastActivity # transactions[1].timestamp

\* slot `sl` of a planogram holds the product and has stock
holdsStocked(planogram, sl, productId) ==
    planogram[sl].productId = productId /\ planogram[sl].stock > 0

\* C25: the slot a successful transaction takes its unit from is the first
\* slot, in planogram order, that holds the product with stock above 0: every
\* slot whose stock changes held the product with stock, loses one unit and
\* has no stocked slot of the product before it, and a paid transaction whose
\* product is stocked somewhere does change a slot. An empty slot of the
\* product is passed over for a later stocked one.
FirstStockedSlotSold ==
    [][txCounter' # txCounter =>
          LET tx   == transactions'[1]
              plan == machines[tx.machineId].planogram
              left == machines'[tx.machineId].planogram
              sold == { sl \in DOMAIN plan : left[sl].stock # plan[sl].stock }
          IN  /\ \A sl \in sold :
                    /\ holdsStocked(plan, sl, tx.productId)
                    /\ left[sl].stock = plan[sl].stock - 1
                    /\ \A before \in 1 .. (sl - 1) : ~holdsStocked(plan, before, tx.productId)
              /\ Cardinality(sold) <= 1
              /\ (tx.success /\ \E sl \in DOMAIN plan : holdsStocked(plan, sl, tx.productId))
                    => sold # {}]_vars

\* C25 witness: the first slot of the product is empty and the newest sale
\* took its unit from the second slot of the same product.
EmptySlotPassedOver ==
    \E m \in MachineIds :
       /\ txCounter > SeedCount
       /\ transactions[1].success
       /\ transactions[1].machineId = m
       /\ machines[m].lastActivity = transactions[1].timestamp
       /\ machines[m].planogram[1].productId = transactions[1].productId
       /\ machines[m].planogram[2].productId = transactions[1].productId
       /\ machines[m].planogram[1].stock = 0
       /\ machines[m].planogram[2].stock = initialStock(PlanogramRolls[m][2].stock,
                                                         machines[m].planogram[2].maxStock) - 1

\* the step is one invocation of the system-event generator
SystemEventStep == evCounter' # evCounter /\ txCounter' = txCounter

\* the last invocation changed a machine
MachineMutated == stepsOf(steps, "mutate", "machines") # <<>>

\* C26: the hardware-warning branch changes the selected machine's status
\* only from online to warning: a machine in warning, error or offline keeps
\* its status, and no hardware field and no other machine is changed.
WarningOnlyDemotesOnline ==
    [][(SystemEventStep /\ events'[1].category = "hardware" /\ events'[1].type = "warning") =>
          LET m == events'[1].machineId
          IN  IF machines[m].status = "online"
              THEN machines' = [machines EXCEPT ![m].status = "warning"]
              ELSE machines' = machines]_vars

\* C26 witness: the newest event is a hardware warning and its invocation
\* demoted the machine.
OnlineMachineDemoted ==
    /\ evCounter > SeedCount
    /\ events[1].category = "hardware"
    /\ events[1].type = "warning"
    /\ events[1].timestamp = now
    /\ machines[events[1].machineId].status = "warning"
    /\ MachineMutated

\* C27: the heartbeat branch changes the status only of a machine in warning:
\* the step either leaves every machine as it was, or the selected machine
\* was in warning and is now online with motorBoard OK and billValidator OK.
HeartbeatOnlyHealsWarning ==
    [][(SystemEventStep /\ events'[1].category = "system") =>
          LET m == events'[1].machineId
          IN  \/ machines' = machines
              \/ /\ machines[m].status = "warning"
                 /\ machines' = [machines EXCEPT ![m].status = "online",
                                                 ![m].hardware.motorBoard = "OK",
                                                 ![m].hardware.billValidator = "OK"]]_vars

\* C27 witness: the newest event is a heartbeat and its invocation healed the
\* machine.
WarningMachineHealed ==
    /\ evCounter > SeedCount
    /\ events[1].category = "system"
    /\ events[1].timestamp = now
    /\ machines[events[1].machineId].status = "online"
    /\ machines[events[1].machineId].hardware.motorBoard = "OK"
    /\ machines[events[1].machineId].hardware.billValidator = "OK"
    /\ MachineMutated

\* C28: the hardware-error branch adds one event of type error and category
\* hardware and leaves the selected machine either with status error and
\* motorBoard ERROR, both, or as it was; no other machine changes.
ErrorSetsBothOrNeither ==
    [][(SystemEventStep /\ events'[1].category = "hardware" /\ events'[1].type = "error") =>
          LET m == events'[1].machineId
          IN  /\ Cardinality(added(events, events')) = 1
              /\ evCounter' = evCounter + 1
              /\ \/ machines' = machines
                 \/ machines' = [machines EXCEPT ![m].status = "error",
                                                 ![m].hardware.motorBoard = "ERROR"]
              /\ machines'[m].status # machines[m].status =>
                    machines'[m].hardware.motorBoard = "ERROR"
              /\ machines'[m].hardware.motorBoard # machines[m].hardware.motorBoard =>
                    machines'[m].status = "error"]_vars

\* C28 witness: the newest event is a hardware error and its invocation put
\* the machine into error with a failed motor board.
MachinePutIntoError ==
    /\ evCounter > SeedCount
    /\ events[1].category = "hardware"
    /\ events[1].type = "error"
    /\ events[1].timestamp = now
    /\ machines[events[1].machineId].status = "error"
    /\ machines[events[1].machineId].hardware.motorBoard = "ERROR"
    /\ MachineMutated

\* the branch of the system-event generator an event comes from
branchOf(e) ==
    IF e.category = "hardware" /\ e.type = "error" THEN "error"
    ELSE IF e.category = "hardware" /\ e.type = "warning" THEN "warning"
    ELSE IF e.category = "connectivity" THEN "connectivity"
    ELSE IF e.category = "system" THEN "heartbeat"
    ELSE "none"

\* one invocation of the system-event generator takes one branch, counts one
\* event and appends it
OneBranchOneEvent ==
    /\ evCounter' = evCounter + 1
    /\ Cardinality(added(events, events')) = 1
    /\ events'[1] \in added(events, events')
    /\ branchOf(events'[1]) \in {"error", "warning", "connectivity", "heartbeat"}

\* C29: every invocation of the system-event generator takes exactly one of
\* the four branches, adds exactly 1 to the event counter, appends exactly one
\* event, and then calls every event subscriber and after them every
\* generic-update subscriber exactly once.
SystemEventNotifiesAll ==
    [][SystemEventStep =>
          /\ OneBranchOneEvent
          /\ deliveredTo(steps', "evCallbacks", events'[1].id) = evCallbacks
          /\ deliveredTo(steps', "updateCallbacks", noId) = updateCallbacks
          /\ \A i, j \in DOMAIN steps' :
                (steps'[i].op = "notify" /\ steps'[i].target = "updateCallbacks"
                    /\ steps'[j].op = "notify" /\ steps'[j].target = "evCallbacks") => j < i]_vars

\* how many times an invocation called cb with `payload` from one registry
timesDelivered(log, registry, payload, cb) ==
    occurrences(deliveredTo(log, registry, payload), cb)

\* an emission served the callbacks that are still subscribed: each was
\* called once for each of its registrations
servedStillSubscribed(before, after, log, registry, payload) ==
    after # before =>
       \A cb \in Callbacks :
          occurrences(after, cb) > 0 =>
             /\ timesDelivered(log, registry, payload, cb) >= occurrences(after, cb)
             /\ timesDelivered(log, registry, payload, cb) <= occurrences(before, cb)

\* C30: when a callback unsubscribes while an emission is being delivered,
\* every callback that is still subscribed in that registry is called exactly
\* once per registration for that emission: none is skipped, none called twice.
UnsubscribeDuringEmissionSkipsNone ==
    [][now' # now =>
          /\ txCounter' # txCounter =>
                servedStillSubscribed(txCallbacks, txCallbacks', steps',
                                      "txCallbacks", transactions'[1].id)
          /\ servedStillSubscribed(updateCallbacks, updateCallbacks', steps',
                                   "updateCallbacks", noId)
          /\ Len(stepsOf(steps', "append", "events")) = 1 =>
                servedStillSubscribed(evCallbacks, evCallbacks', steps',
                                      "evCallbacks", firstEventOf(steps'))]_vars

\* the successful transactions of a product in the current history
salesOf(productId) ==
    { i \in DOMAIN transactions :
        transactions[i].success /\ transactions[i].productId = productId }

\* the summed amount of the successful transactions of a product
revenueOf(productId) ==
    SumOver(salesOf(productId), [i \in DOMAIN transactions |-> transactions[i].amount])

\* every entry of a ranking carries its product's tallies, no product twice
TalliesRight(ranking) ==
    /\ \A i \in DOMAIN ranking :
          /\ ranking[i].entry.count = Cardinality(salesOf(ranking[i].entry.productId))
          /\ ranking[i].entry.revenue = revenueOf(ranking[i].entry.productId)
    /\ \A i, j \in DOMAIN ranking :
          ranking[i].entry.productId = ranking[j].entry.productId => i = j

stateStore ==
    <<machines, transactions, events, txCounter, evCounter, hourlyRevenue,
      hourlyTraffic, isRunning>>

\* a call of a computed-data helper leaves the State Store as it was
ReadsLeaveStoreAlone == [][stateStore' = stateStore]_vars

\* C32: a call of a computed-data helper leaves machines, histories,
\* counters, hourly aggregates and the running flag unchanged, and a call of
\* a helper other than the heatmap returns what the call before it returned
\* for the same helper, the same argument and the same store.
ReadsArePure ==
    [][/\ stateStore' = stateStore
       /\ (/\ reading'.fn = reading.fn
           /\ reading'.n = reading.n
           /\ reading.fn # "getSalesHeatmap") => reading'.result = reading.result]_vars

ErrorHardwareMeansErrorStatus ==
    \A m \in MachineIds :
        (machines[m].hardware.motorBoard = "ERROR" \/ machines[m].hardware.billValidator = "ERROR")
            => machines[m].status = "error"

\* C34 witness: the system-event generator has put a machine into error: its
\* motor board is ERROR and its bill validator, ERROR on every machine
\* generated in error, is OK.
MotorBoardFailedInService ==
    \E m \in MachineIds :
        /\ evCounter > SeedCount
        /\ machines[m].status = "error"
        /\ machines[m].hardware.motorBoard = "ERROR"
        /\ machines[m].hardware.billValidator = "OK"

\* the units in the slots of a machine, added up
stockOf(machine) ==
    SumOver(DOMAIN machine.planogram,
            [sl \in DOMAIN machine.planogram |-> machine.planogram[sl].stock])

\* C35: stock is never replenished and is conserved against sales: no step
\* raises a slot's stock, and in every step a machine's transactionsToday
\* grows by as much as the stock of its slots, added up, falls.  From the
\* initial state on, the growth of transactionsToday is therefore the total
\* fall of the machine's stock.
StockConservedAgainstSales ==
    [][\A m \in MachineIds :
          /\ \A sl \in DOMAIN machines[m].planogram :
                machines'[m].planogram[sl].stock <= machines[m].planogram[sl].stock
          /\ machines'[m].transactionsToday - machines[m].transactionsToday
                = stockOf(machines[m]) - stockOf(machines'[m])]_vars

\* C35 witness: the two newest transactions are sales of two products on one
\* machine.
TwoProductsSoldOnOneMachine ==
    /\ txCounter = SeedCount + 2
    /\ transactions[1].success
    /\ transactions[2].success
    /\ transactions[1].machineId = transactions[2].machineId
    /\ transactions[1].productId # transactions[2].productId
    /\ transactions[2].timestamp > 0
    /\ machines[transactions[1].machineId].lastActivity = transactions[1].timestamp

\* C36: under any sequence of start and stop calls the running flag is set
\* exactly when a transaction timer and a system-event timer are live, the
\* live timers are the two the handles name, and a start in the stopped state
\* arms exactly one new timer of each kind.
RunningIffBothTimers ==
    /\ [](isRunning <=> (timersOf("tx") # {} /\ timersOf("ev") # {}))
    /\ [](isRunning => activeTimers = { [id |-> txInterval, kind |-> "tx"],
                                         [id |-> evInterval, kind |-> "ev"] })
    /\ [][(~isRunning /\ isRunning') =>
             LET armed == activeTimers' \ activeTimers
             IN  /\ Cardinality({ t \in armed : t.kind = "tx" }) = 1
                 /\ Cardinality({ t \in armed : t.kind = "ev" }) = 1
                 /\ Cardinality(armed) = 2]_vars

\* C36 witness: generators have run, the simulation was stopped and started
\* again, and the two timers of the second start are the live ones.
RearmedAfterStop ==
    /\ isRunning
    /\ now > 0
    /\ nextTimerId > 3
    /\ activeTimers = { [id |-> nextTimerId - 2, kind |-> "tx"],
                        [id |-> nextTimerId - 1, kind |-> "ev"] }

\* the step is an invocation of the transaction generator that made a
\* transaction: the newest event is the terminal's log line
TransactionTick == evCounter' # evCounter /\ events'[1].category = "transaction"

\* the step is an invocation of the system-event generator: the newest event
\* is one of its four kinds
SystemEventTick == evCounter' # evCounter /\ branchOf(events'[1]) # "none"

\* C37: the two generators write disjoint parts of the state: a transaction
\* tick changes no machine's status or hardware, and a system-event tick
\* changes no slot's stock, no machine's revenueToday or transactionsToday,
\* and neither the transaction history, the transaction counter nor the
\* hourly aggregates.
GeneratorsWriteDisjointParts ==
    [][/\ TransactionTick =>
            \A m \in MachineIds :
               /\ machines'[m].status = machines[m].status
               /\ machines'[m].hardware = machines[m].hardware
       /\ SystemEventTick =>
            /\ \A m \in MachineIds :
                  /\ machines'[m].planogram = machines[m].planogram
                  /\ machines'[m].revenueToday = machines[m].revenueToday
                  /\ machines'[m].transactionsToday = machines[m].transactionsToday
            /\ transactions' = transactions
            /\ txCounter' = txCounter
            /\ hourlyRevenue' = hourlyRevenue
            /\ hourlyTraffic' = hourlyTraffic]_vars

\* C37 witness: a machine in warning has sold a unit and is still in warning.
SoldWhileInWarning ==
    /\ txCounter > SeedCount
    /\ transactions[1].success
    /\ transactions[1].timestamp = now
    /\ events[1].category = "transaction"
    /\ machines[transactions[1].machineId].lastActivity = now
    /\ machines[transactions[1].machineId].status = "warning"

\* C38: once no machine is online or in warning, no transaction is produced
\* again: every step from such a state leads to such a state and leaves the
\* transaction history, the transaction counter, every slot's stock, every
\* machine's revenue and the hourly aggregates as they are.
NoSalesAfterFleetDown ==
    [][NoOperationalMachine =>
          /\ NoOperationalMachine'
          /\ transactions' = transactions
          /\ txCounter' = txCounter
          /\ \A m \in MachineIds :
                /\ machines'[m].planogram = machines[m].planogram
                /\ machines'[m].revenueToday = machines[m].revenueToday
                /\ machines'[m].transactionsToday = machines[m].transactionsToday
          /\ hourlyRevenue' = hourlyRevenue
          /\ hourlyTraffic' = hourlyTraffic]_vars

\* C38 witness: the fleet has sold, its last selling machine has failed, and
\* the transaction timer has fired since without making a transaction.
FleetDownAfterSales ==
    /\ NoOperationalMachine
    /\ isRunning
    /\ txCounter > SeedCount
    /\ steps = <<>>
    /\ events[1].category = "hardware"
    /\ events[1].type = "error"
    /\ events[1].timestamp = now

\* C39: the transaction counter is the number of Transactions created so far,
\* the seeded ones included: it starts at the number of seeds, every step
\* raises it by the number of transactions the step puts into the history,
\* and one machine selection is on record for each count.  The history holds
\* min(counter, capacity) transactions.
TxCounterCountsCreated ==
    /\ [](txCounter = Len(selectedStatus))
    /\ [](Len(transactions) = (IF txCounter < MaxTransactions THEN txCounter
                               ELSE MaxTransactions))
    /\ [][txCounter' - txCounter = Cardinality(added(transactions, transactions'))]_vars

\* C39 witness: more transactions than the history holds have been created,
\* the newest of them declined, and the history is full.
CounterPastCapacity ==
    /\ txCounter > MaxTransactions
    /\ Len(transactions) = MaxTransactions
    /\ seqOf(transactions[1].id) = txCounter
    /\ ~transactions[1].success

=============================================================================
